---- MODULE Spec2Model ----
(***************************************************************************)
(* GroupFeed platform (src/main.py): a main bot that registers hosted      *)
(* bots, a HostedRunner that reconciles running sessions with the          *)
(* hosted_bots table, and the per-session moderation handlers              *)
(* (intake, approve/reject, fan-out, reply relay).                         *)
(*                                                                         *)
(* Two specifications share the state:                                     *)
(*   SpecMod  the handlers of running sessions over the five tables;       *)
(*   SpecRun  HostedRunner, the session tasks and main_async's loop.       *)
(* Handlers are cut at their awaits: the code between two awaits is one    *)
(* atomic step (asyncio is cooperative), every awaited gateway call may    *)
(* return or raise.                                                        *)
(***************************************************************************)
EXTENDS Integers, Sequences, FiniteSets, TLC

\* ---------------------------------------------------------------- bounds
MaxSubs == 2     \* intake events are accepted while at most this many ids were used
MaxEvents == 2   \* updates delivered to the handlers in one behaviour of SpecMod
MaxStarts == 2   \* sessions created per bot in one behaviour of SpecRun
MaxToken == 3    \* characters of a token in SpecVault
MaxKey == 2      \* characters of SECRET_KEY in SpecVault

\* ---------------------------------------------------------------- inputs
Bots == {1, 2}                 \* bot_id of the hosted bots
Apps == Bots \cup {0}          \* the Applications: the hosted bots' and the main bot's (0)
Users == {1, 2}                \* telegram user ids; user b registered bot b
Dests == {<<100, 0>>, <<100, 7>>, <<200, 0>>}   \* (chat_id, thread_id), 0 = no topic
Kinds == {"text", "photo", "video"}
Contents == Kinds \cup {"command"}   \* "command": a text starting with "/"
ChatTypes == {"private", "group"}

NoSub == [bot_id |-> 0, owner_id |-> 0, user_id |-> 0, kind |-> "none", status |-> "none"]

VARIABLES
    hosted_bots,          \* [Users \X Bots -> {"none","on","off"}]: row (owner_id, bot_id) and its active flag
    hosted_destinations,  \* [Bots -> Seq([dest, active])]: rows in created_ts order
    hosted_user_intro,    \* set of <<bot_id, user_id>>
    hosted_submissions,   \* [id -> [bot_id, owner_id, user_id, kind, status]]
    sub_seq,              \* AUTOINCREMENT: the next id of hosted_submissions
    hosted_admin_map,     \* [<<bot_id, owner_id, admin_msg_id>> -> submission_id]
    msg_seq,              \* [Bots -> Nat]: next message_id the gateway gives a notification
    h,                    \* [Apps -> handler record]: the update an Application is processing
    posts,                \* history: [<<submission_id, dest>> -> number of send_to_dest calls]
    intro_sends,          \* history: [<<bot_id, user_id>> -> INTRO_TEXT replies sent while the bot has a row]
    events,               \* number of updates delivered so far (SpecMod)
    tasks,                \* HostedRunner.tasks: sequence of <<bot_id, n>> in insertion order
    sess,                 \* [Bots -> [1..MaxStarts -> session record]]: every task _run ever created
    nstarts,              \* [Bots -> Nat]: sessions created so far per bot
    main,                 \* main_async and the sync_from_db pass it is in
    vault                 \* SECRET_KEY, a token, and what protect_token / unprotect_token made of it

dbVars == <<hosted_destinations, hosted_user_intro, hosted_submissions, sub_seq,
            hosted_admin_map, msg_seq>>
histVars == <<posts, intro_sends>>
runVars == <<tasks, sess, nstarts, main>>
vars == <<hosted_bots, dbVars, h, histVars, events, runVars, vault>>

\* ---------------------------------------------------------------- helpers
Range(s) == {s[i] : i \in 1..Len(s)}

RECURSIVE SelectSeqBy(_, _)
SelectSeqBy(s, keep) ==
    IF s = <<>> THEN <<>>
    ELSE IF Head(s) \in keep THEN <<Head(s)>> \o SelectSeqBy(Tail(s), keep)
         ELSE SelectSeqBy(Tail(s), keep)

\* ---------------------------------------------------------------- tables
\* list_destinations: the active rows of a bot, oldest first
list_destinations(bot_id) ==
    LET rows == hosted_destinations[bot_id]
        act == {rows[i].dest : i \in {j \in 1..Len(rows) : rows[j].active}}
    IN SelectSeqBy([i \in 1..Len(rows) |-> rows[i].dest], act)

intro_shown(bot_id, user_id) == <<bot_id, user_id>> \in hosted_user_intro

get_submission(sub_id) ==
    IF sub_id \in DOMAIN hosted_submissions THEN hosted_submissions[sub_id] ELSE NoSub

\* an UPDATE that matches no row: the status is never persisted
set_submission_status_lost(subs, sub_id, status) == subs

\* set_submission_status: UPDATE ... WHERE id=? (no row, no change)
set_submission_status(subs, sub_id, status) ==
    IF sub_id \in DOMAIN subs THEN [subs EXCEPT ![sub_id].status = status] ELSE subs

\* create_submission: INSERT with status 'pending', returns lastrowid
create_submission(subs, id, bot_id, owner_id, user_id, kind) ==
    [i \in DOMAIN subs \cup {id} |->
        IF i = id
        THEN [bot_id |-> bot_id, owner_id |-> owner_id, user_id |-> user_id,
              kind |-> kind, status |-> "pending"]
        ELSE subs[i]]

\* map_admin_msg: INSERT OR REPLACE on the key (bot_id, owner_id, admin_msg_id)
map_admin_msg(map, bot_id, owner_id, admin_msg_id, submission_id) ==
    [k \in DOMAIN map \cup {<<bot_id, owner_id, admin_msg_id>>} |->
        IF k = <<bot_id, owner_id, admin_msg_id>> THEN submission_id ELSE map[k]]

submission_from_admin_reply(bot_id, owner_id, replied_msg_id) ==
    IF <<bot_id, owner_id, replied_msg_id>> \in DOMAIN hosted_admin_map
    THEN hosted_admin_map[<<bot_id, owner_id, replied_msg_id>>]
    ELSE 0

HasRow(bot_id) == \E u \in Users : hosted_bots[<<u, bot_id>>] # "none"

Posts(sub_id, dest) ==
    IF <<sub_id, dest>> \in DOMAIN posts THEN posts[<<sub_id, dest>>] ELSE 0

CountPost(p, sub_id, dest) ==
    [k \in DOMAIN p \cup {<<sub_id, dest>>} |->
        IF k = <<sub_id, dest>>
        THEN (IF k \in DOMAIN p THEN p[k] ELSE 0) + 1
        ELSE p[k]]

\* ---------------------------------------------------------------- token obfuscation
\* str and bytes are sequences: of code points (below 2048) and of 0..255
CodePoints == {48, 58, 122, 233}     \* "0", ":", "z", "e" with acute accent
KeyPoints == {49, 107, 233}          \* "1", "k", "e" with acute accent

SeqsUpTo(S, n) == UNION {[1..k -> S] : k \in 0..n}

RECURSIVE Flatten(_)
Flatten(ss) == IF ss = <<>> THEN <<>> ELSE Head(ss) \o Flatten(Tail(ss))

\* str.encode("utf-8")
utf8_encode(str) ==
    Flatten([i \in 1..Len(str) |->
                IF str[i] < 128 THEN <<str[i]>>
                ELSE <<192 + (str[i] \div 64), 128 + (str[i] % 64)>>])

\* bytes.decode("utf-8"); <<-1>> stands for UnicodeDecodeError
RECURSIVE utf8_decode(_)
utf8_decode(bs) ==
    IF bs = <<>> THEN <<>>
    ELSE IF bs[1] < 128
         THEN LET rest == utf8_decode(Tail(bs)) IN
              IF rest = <<-1>> THEN rest ELSE <<bs[1]>> \o rest
    ELSE IF bs[1] >= 194 /\ bs[1] < 224 /\ Len(bs) >= 2 /\ bs[2] >= 128 /\ bs[2] < 192
         THEN LET rest == utf8_decode(Tail(Tail(bs))) IN
              IF rest = <<-1>> THEN rest ELSE <<(bs[1] - 192) * 64 + (bs[2] - 128)>> \o rest
    ELSE <<-1>>

\* b ^ k on bytes
RECURSIVE XorByte(_, _)
XorByte(a, b) ==
    IF a = 0 /\ b = 0 THEN 0
    ELSE (((a % 2) + (b % 2)) % 2) + 2 * XorByte(a \div 2, b \div 2)

\* a combination with the key that is not its own inverse
xor_bytes_add(data, key) ==
    IF key = <<>> THEN data
    ELSE [i \in 1..Len(data) |-> (data[i] + key[((i - 1) % Len(key)) + 1]) % 256]

\* _xor_bytes
xor_bytes(data, key) ==
    IF key = <<>> THEN data
    ELSE [i \in 1..Len(data) |-> XorByte(data[i], key[((i - 1) % Len(key)) + 1])]

\* base64.urlsafe_b64encode: a character is its index in the alphabet, 64 is "="
RECURSIVE urlsafe_b64encode(_)
urlsafe_b64encode(bs) ==
    IF bs = <<>> THEN <<>>
    ELSE IF Len(bs) = 1
         THEN <<bs[1] \div 4, (bs[1] % 4) * 16, 64, 64>>
    ELSE IF Len(bs) = 2
         THEN <<bs[1] \div 4, (bs[1] % 4) * 16 + (bs[2] \div 16), (bs[2] % 16) * 4, 64>>
    ELSE <<bs[1] \div 4, (bs[1] % 4) * 16 + (bs[2] \div 16),
           (bs[2] % 16) * 4 + (bs[3] \div 64), bs[3] % 64>>
         \o urlsafe_b64encode(SubSeq(bs, 4, Len(bs)))

\* base64.urlsafe_b64decode of well padded input
RECURSIVE urlsafe_b64decode(_)
urlsafe_b64decode(cs) ==
    IF Len(cs) < 4 THEN <<>>
    ELSE LET b1 == cs[1] * 4 + (cs[2] \div 16)
             b2 == (cs[2] % 16) * 16 + (cs[3] \div 4)
             b3 == (cs[3] % 4) * 64 + cs[4]
         IN IF cs[3] = 64 THEN <<b1>>
            ELSE IF cs[4] = 64 THEN <<b1, b2>>
            ELSE <<b1, b2, b3>> \o urlsafe_b64decode(SubSeq(cs, 5, Len(cs)))

\* protect_token and unprotect_token, with SECRET_KEY as key
protect_token(token, key) ==
    urlsafe_b64encode(xor_bytes(utf8_encode(token), utf8_encode(key)))

unprotect_token(enc, key) ==
    utf8_decode(xor_bytes(urlsafe_b64decode(enc), utf8_encode(key)))

NoVault == [pc |-> "none", key |-> <<>>, token |-> <<>>, enc |-> <<>>, dec |-> <<>>]

\* add_hosted_bot, line 131: the token is stored protected
Protect ==
    /\ vault.pc = "token"
    /\ vault' = [vault EXCEPT !.pc = "stored", !.enc = protect_token(vault.token, vault.key)]
    /\ UNCHANGED <<hosted_bots, dbVars, h, histVars, events, runVars>>

\* list_all_active_bots, line 176: the stored token is read back
Unprotect ==
    /\ vault.pc = "stored"
    /\ vault' = [vault EXCEPT !.pc = "read", !.dec = unprotect_token(vault.enc, vault.key)]
    /\ UNCHANGED <<hosted_bots, dbVars, h, histVars, events, runVars>>

\* ---------------------------------------------------------------- sessions
NoSess == [phase |-> "none", owner_id |-> 0, running |-> FALSE, cancel |-> FALSE]

\* phases of the task _run of start_hosted, one per await
StartPhases == {"initialize", "start", "start_polling"}
UnwindPhases == {"updater_stop", "app_stop", "shutdown"}
EndPhases == {"done", "failed", "cancelled"}

Alive(b, n) == sess[b][n].phase \in StartPhases \cup {"polling"} \cup UnwindPhases

\* the session dispatches updates: polling has started and the Application runs
Dispatching(b, n) == sess[b][n].phase = "polling" /\ sess[b][n].running

TaskKeys == {tasks[i][1] : i \in 1..Len(tasks)}
TaskOf(b) == CHOOSE n \in 1..MaxStarts : <<b, n>> \in Range(tasks)

\* main_async: where it is (pc: "boot" before line 809, "sleep" in line 813,
\* "stop_wait" in the await of a stop_hosted called by sync_from_db, "returned" or
\* "raised" as sync_from_db ends, "finally_wait" in the await of a stop_hosted
\* called by the finally, "exited"), whether the pass was called
\* inside the try of line 811 (in_loop), and the locals of the pass:
\*   active, ids    the rows of list_all_active_bots(), and active_ids
\*   run            what is left of list(self.tasks.keys()), its head being stopped
\*   cur            the bot whose task stop_hosted awaits
\* and what the pass did, kept until main_async goes on:
\*   ended          "none" (in progress), "ok" (returned), "raised"
\*   started, stopped   bots the pass started / removed from the registry
\*   was_failed     active bots whose registered task had already failed when the pass began
\*   same           the registry's keys were active_ids when the pass began
M0 == [pc |-> "sleep", in_loop |-> TRUE, active |-> {}, ids |-> {}, run |-> <<>>,
       cur |-> 0, ended |-> "none", started |-> {}, stopped |-> {}, was_failed |-> {},
       same |-> FALSE]

\* ---------------------------------------------------------------- handler state
H0 == [pc |-> "idle", op |-> "none", n |-> 0, owner |-> 0, uid |-> 0, content |-> "none",
       reply_to |-> 0, action |-> "none", sid |-> 0, sub |-> NoSub,
       answer |-> "none", wrote |-> "none", dests |-> <<>>, todo |-> <<>>, sent |-> <<>>,
       failed |-> {}, reported |-> <<>>, intro |-> FALSE, menu |-> FALSE,
       created |-> 0, notified |-> FALSE, mapped |-> 0, nodest |-> FALSE,
       relayed_to |-> 0, dest |-> <<0, 0>>, member |-> "none", upserted |-> FALSE,
       confirmed |-> FALSE, format_ok |-> FALSE, me |-> 0]

\* an Application processes its updates one at a time
Free(b) == h[b].pc = "idle"

Messages == [chat_type : ChatTypes, uid : Users, content : Contents \cup {"start"},
             reply_to : 0..MaxSubs]
Callbacks == [uid : Users, action : {"approve", "reject"}, sid : 1..(MaxSubs + 1)]

\* "/connect" sent in the chat (and topic) dest
Connects == [chat_type : ChatTypes, uid : Users, content : {"connect"}, dest : Dests]

\* what bot.get_chat_member gives: the status of the member, or an exception
Members == {"creator", "administrator", "member", "left", "error"}

\* build_hosted_app: the first handler of the group whose filter matches
Handler(ev) ==
    IF ev.content = "start" THEN "hosted_start"
    ELSE IF ev.content = "connect" THEN "hosted_connect"
    ELSE IF ev.chat_type = "private" /\ ev.reply_to # 0 THEN "hosted_owner_reply_relay"
    ELSE IF ev.chat_type = "private" THEN "hosted_user_dm"
    ELSE "none"

Finish(b, hr, pc) == h' = [h EXCEPT ![b] = [hr EXCEPT !.pc = pc]]

\* the record of a handler that starts on update ev in the session n of bot b
Enter(op, b, n, ev) ==
    [H0 EXCEPT !.op = op, !.n = n, !.owner = sess[b][n].owner_id, !.uid = ev.uid]

\* ---------------------------------------------------------------- hosted_start
\* "Owner sees menu buttons": the last await of hosted_start
StartMenu(b, hr) ==
    IF hr.owner # 0 /\ hr.uid = hr.owner
    THEN Finish(b, [hr EXCEPT !.menu = TRUE], "done")
    ELSE Finish(b, hr, "done")

hosted_start(b, ev) ==
    /\ Handler(ev) = "hosted_start"
    /\ Free(b)
    /\ \E n \in 1..MaxStarts :
        /\ Dispatching(b, n)
        /\ LET hr == Enter("hosted_start", b, n, ev) IN
           IF ev.chat_type # "private"
           THEN Finish(b, hr, "done") /\ UNCHANGED hosted_user_intro
           ELSE IF ~intro_shown(b, ev.uid)
           THEN /\ hosted_user_intro' = hosted_user_intro \cup {<<b, ev.uid>>}
                /\ Finish(b, [hr EXCEPT !.intro = TRUE], "intro")
           ELSE StartMenu(b, hr) /\ UNCHANGED hosted_user_intro
    /\ UNCHANGED <<hosted_bots, hosted_destinations, hosted_submissions, sub_seq,
                   hosted_admin_map, msg_seq, histVars, runVars>>

\* await update.message.reply_text(INTRO_TEXT) returned (ok) or raised
StartIntroDone(b, ok) ==
    /\ h[b].op = "hosted_start" /\ h[b].pc = "intro"
    /\ IF ok
       THEN /\ intro_sends' = [intro_sends EXCEPT ![<<b, h[b].uid>>] = @ + 1]
            /\ StartMenu(b, h[b])
       ELSE Finish(b, h[b], "raised") /\ UNCHANGED intro_sends
    /\ UNCHANGED <<hosted_bots, dbVars, posts, runVars>>

\* ---------------------------------------------------------------- hosted_user_dm
\* lines 439-484: after the intro, up to the await that sends the notification
Intake(b, hr) ==
    IF hr.uid = hr.owner \/ hr.content \notin Kinds
    THEN Finish(b, hr, "done") /\ UNCHANGED <<hosted_submissions, sub_seq>>
    ELSE /\ hosted_submissions' =
                create_submission(hosted_submissions, sub_seq, b, hr.owner, hr.uid, hr.content)
         /\ sub_seq' = sub_seq + 1
         /\ Finish(b, [hr EXCEPT !.created = sub_seq], "notify")

hosted_user_dm(b, ev) ==
    /\ Handler(ev) = "hosted_user_dm"
    /\ Free(b)
    /\ sub_seq <= MaxSubs
    /\ \E n \in 1..MaxStarts :
        /\ Dispatching(b, n)
        /\ LET hr == [Enter("hosted_user_dm", b, n, ev) EXCEPT
                        !.content = ev.content, !.reply_to = ev.reply_to] IN
           IF ~intro_shown(b, ev.uid)
           THEN /\ hosted_user_intro' = hosted_user_intro \cup {<<b, ev.uid>>}
                /\ Finish(b, [hr EXCEPT !.intro = TRUE], "intro")
                /\ UNCHANGED <<hosted_submissions, sub_seq>>
           ELSE Intake(b, hr) /\ UNCHANGED hosted_user_intro
    /\ UNCHANGED <<hosted_bots, hosted_destinations, hosted_admin_map, msg_seq, histVars,
                   runVars>>

\* await msg.reply_text(INTRO_TEXT) returned (ok) or raised
DmIntroDone(b, ok) ==
    /\ h[b].op = "hosted_user_dm" /\ h[b].pc = "intro"
    /\ IF ok
       THEN /\ intro_sends' = [intro_sends EXCEPT ![<<b, h[b].uid>>] = @ + 1]
            /\ Intake(b, h[b])
       ELSE /\ Finish(b, h[b], "raised")
            /\ UNCHANGED <<hosted_submissions, sub_seq, intro_sends>>
    /\ UNCHANGED <<hosted_bots, hosted_destinations, hosted_user_intro, hosted_admin_map,
                   msg_seq, posts, runVars>>

\* await context.bot.send_message/send_photo/send_video(chat_id=owner_id, ...) returned
\* the message (ok), then map_admin_msg; or raised
DmNotifyDone(b, ok) ==
    /\ h[b].op = "hosted_user_dm" /\ h[b].pc = "notify"
    /\ IF ok
       THEN /\ hosted_admin_map' = map_admin_msg(hosted_admin_map, b, h[b].owner,
                                                 msg_seq[b], h[b].created)
            /\ msg_seq' = [msg_seq EXCEPT ![b] = @ + 1]
            /\ Finish(b, [h[b] EXCEPT !.notified = TRUE, !.mapped = msg_seq[b]], "done")
       ELSE Finish(b, h[b], "raised") /\ UNCHANGED <<hosted_admin_map, msg_seq>>
    /\ UNCHANGED <<hosted_bots, hosted_destinations, hosted_user_intro, hosted_submissions,
                   sub_seq, histVars, runVars>>

\* ---------------------------------------------------------------- hosted_owner_reply_relay
\* a relay that does not look at who replies
RelayTargetAnyone(b, owner_id, ev) ==
    LET sub_id == submission_from_admin_reply(b, owner_id, ev.reply_to)
        sub == get_submission(sub_id)
    IN IF sub_id = 0 \/ sub = NoSub \/ sub.bot_id # b \/ ev.content \notin Kinds
       THEN 0 ELSE sub.user_id

\* lines 553-580: the user the reply is sent to, 0 when the handler returns before
RelayTarget(b, owner_id, ev) ==
    LET sub_id == submission_from_admin_reply(b, owner_id, ev.reply_to)
        sub == get_submission(sub_id)
    IN IF ev.uid # owner_id \/ sub_id = 0 \/ sub = NoSub \/ sub.bot_id # b
          \/ ev.content \notin Kinds
       THEN 0 ELSE sub.user_id

hosted_owner_reply_relay(b, ev) ==
    /\ Handler(ev) = "hosted_owner_reply_relay"
    /\ Free(b)
    /\ \E n \in 1..MaxStarts :
        /\ Dispatching(b, n)
        /\ LET hr == [Enter("hosted_owner_reply_relay", b, n, ev) EXCEPT
                        !.content = ev.content, !.reply_to = ev.reply_to]
               sub_id == submission_from_admin_reply(b, hr.owner, ev.reply_to)
               to == RelayTarget(b, hr.owner, ev)
           IN IF to = 0
              THEN Finish(b, hr, "done")
              ELSE Finish(b, [hr EXCEPT !.sid = sub_id, !.sub = get_submission(sub_id),
                                        !.relayed_to = to], "done")
    /\ UNCHANGED <<hosted_bots, dbVars, histVars, runVars>>

\* ---------------------------------------------------------------- hosted_approve_reject
\* variants of Verdict that leave one check out: the status check of line 510,
\* its 'rejected' half, the bot_id check of line 507
VerdictNoStatus(sub, bot_id) ==
    IF sub = NoSub \/ sub.bot_id # bot_id THEN "Not found." ELSE "ok"

VerdictRejectedOpen(sub, bot_id) ==
    IF sub = NoSub \/ sub.bot_id # bot_id THEN "Not found."
    ELSE IF sub.status = "approved" THEN "Already approved."
    ELSE "ok"

VerdictNoBot(sub, bot_id) ==
    IF sub = NoSub THEN "Not found."
    ELSE IF sub.status = "approved" THEN "Already approved."
    ELSE IF sub.status = "rejected" THEN "Already rejected."
    ELSE "ok"

\* lines 506-512: what the handler answers before it changes anything; "ok" lets it go on
Verdict(sub, bot_id) ==
    IF sub = NoSub \/ sub.bot_id # bot_id THEN "Not found."
    ELSE IF sub.status = "approved" THEN "Already approved."
    ELSE IF sub.status = "rejected" THEN "Already rejected."
    ELSE "ok"

\* the loop of lines 537-541 reaches the next destination: send_to_dest is called
Fan(b, hr, todo) ==
    IF todo = <<>>
    THEN Finish(b, [hr EXCEPT !.todo = <<>>], "done") /\ UNCHANGED posts
    ELSE /\ posts' = CountPost(posts, hr.sid, Head(todo))
         /\ Finish(b, [hr EXCEPT !.todo = todo, !.sent = Append(@, Head(todo))], "send")

hosted_approve_reject(b, ev) ==
    /\ Free(b)
    /\ \E n \in 1..MaxStarts :
        /\ Dispatching(b, n)
        /\ LET hr == [Enter("hosted_approve_reject", b, n, ev) EXCEPT
                        !.action = ev.action, !.sid = ev.sid]
               sub == get_submission(ev.sid)
               v == Verdict(sub, b)
           IN IF ev.uid # hr.owner
              THEN /\ Finish(b, [hr EXCEPT !.answer = "Owner only."], "done")
                   /\ UNCHANGED hosted_submissions
              ELSE IF v # "ok"
              THEN /\ Finish(b, [hr EXCEPT !.answer = v, !.sub = sub], "done")
                   /\ UNCHANGED hosted_submissions
              ELSE IF ev.action = "reject"
              THEN /\ hosted_submissions' =
                          set_submission_status(hosted_submissions, ev.sid, "rejected")
                   /\ Finish(b, [hr EXCEPT !.answer = "Rejected.", !.sub = sub,
                                           !.wrote = "rejected"], "done")
              ELSE /\ hosted_submissions' =
                          set_submission_status(hosted_submissions, ev.sid, "approved")
                   /\ Finish(b, [hr EXCEPT !.answer = "Approved.", !.sub = sub,
                                           !.wrote = "approved"], "answer")
    /\ UNCHANGED <<hosted_bots, hosted_destinations, hosted_user_intro, sub_seq,
                   hosted_admin_map, msg_seq, histVars, runVars>>

\* await q.answer("Approved.") returned (ok) or raised
ApproveAnswerDone(b, ok) ==
    /\ h[b].pc = "answer"
    /\ Finish(b, h[b], IF ok THEN "edit" ELSE "raised")
    /\ UNCHANGED <<hosted_bots, dbVars, histVars, runVars>>

\* await q.edit_message_reply_markup returned or raised (swallowed); then lines 531-537
ApproveEditDone(b) ==
    /\ h[b].pc = "edit"
    /\ LET dests == list_destinations(b) IN
       IF dests = <<>>
       THEN Finish(b, [h[b] EXCEPT !.nodest = TRUE], "done") /\ UNCHANGED posts
       ELSE Fan(b, [h[b] EXCEPT !.dests = dests], dests)
    /\ UNCHANGED <<hosted_bots, dbVars, intro_sends, runVars>>

\* await send_to_dest(...) returned (ok) or raised
ApproveSendDone(b, ok) ==
    /\ h[b].pc = "send"
    /\ IF ok
       THEN Fan(b, h[b], Tail(h[b].todo))
       ELSE /\ Finish(b, [h[b] EXCEPT !.failed = @ \cup {Head(h[b].todo)}], "report")
            /\ UNCHANGED posts
    /\ UNCHANGED <<hosted_bots, dbVars, intro_sends, runVars>>

\* await q.message.reply_text("Failed to post to ...") returned (ok) or raised
ApproveReportDone(b, ok) ==
    /\ h[b].pc = "report"
    /\ IF ok
       THEN Fan(b, [h[b] EXCEPT !.reported = Append(@, Head(h[b].todo))], Tail(h[b].todo))
       ELSE Finish(b, h[b], "raised") /\ UNCHANGED posts
    /\ UNCHANGED <<hosted_bots, dbVars, intro_sends, runVars>>

\* ---------------------------------------------------------------- main bot
\* remove_hosted_bot: the row of (owner_id, bot_id), and every child row of bot_id
remove_hosted_bot(owner_id, bot_id) ==
    /\ hosted_bots' = [hosted_bots EXCEPT ![<<owner_id, bot_id>>] = "none"]
    /\ hosted_destinations' = [hosted_destinations EXCEPT ![bot_id] = <<>>]
    /\ hosted_user_intro' = {r \in hosted_user_intro : r[1] # bot_id}
    /\ hosted_submissions' =
          [i \in {j \in DOMAIN hosted_submissions : hosted_submissions[j].bot_id # bot_id}
              |-> hosted_submissions[i]]
    /\ hosted_admin_map' =
          [k \in {j \in DOMAIN hosted_admin_map : j[1] # bot_id} |-> hosted_admin_map[k]]

\* main_buttons, "main:del:<bot_id>" pressed by uid
MainDel(uid, bot_id) ==
    /\ remove_hosted_bot(uid, bot_id)
    \* the count of intro_sends restarts when the bot's last row is gone
    /\ intro_sends' =
          IF \E u \in Users : hosted_bots'[<<u, bot_id>>] # "none"
          THEN intro_sends
          ELSE [k \in DOMAIN intro_sends |-> IF k[1] = bot_id THEN 0 ELSE intro_sends[k]]
    /\ UNCHANGED <<sub_seq, msg_seq, h, posts, runVars>>

\* set_hosted_bot_active: UPDATE ... WHERE owner_id=? AND bot_id=? (no row, no change)
set_hosted_bot_active(owner_id, bot_id, active) ==
    IF <<owner_id, bot_id>> \in DOMAIN hosted_bots /\ hosted_bots[<<owner_id, bot_id>>] # "none"
    THEN [hosted_bots EXCEPT ![<<owner_id, bot_id>>] = IF active = 1 THEN "on" ELSE "off"]
    ELSE hosted_bots

\* main_buttons, "main:stop:<bot_id>" pressed by uid
MainStop(uid, bot_id) ==
    /\ hosted_bots' = set_hosted_bot_active(uid, bot_id, 0)
    /\ UNCHANGED <<dbVars, h, histVars, runVars>>

\* main_buttons, "main:start:<bot_id>" pressed by uid
MainStart(uid, bot_id) ==
    /\ hosted_bots' = set_hosted_bot_active(uid, bot_id, 1)
    /\ UNCHANGED <<dbVars, h, histVars, runVars>>

\* ---------------------------------------------------------------- main_receive_token
\* a private text to the main bot: whether "Add Bot" was pressed before
\* (user_data["awaiting_token"]) and whether the text matches TOKEN_RE
Tokens == [uid : Users, awaiting : BOOLEAN, format_ok : BOOLEAN]

\* an add_hosted_bot that keeps a row that is already there (INSERT OR IGNORE)
add_hosted_bot_ignore(owner_id, bot_id) ==
    IF hosted_bots[<<owner_id, bot_id>>] # "none" THEN hosted_bots
    ELSE [hosted_bots EXCEPT ![<<owner_id, bot_id>>] = "on"]

\* add_hosted_bot: INSERT OR REPLACE on UNIQUE(owner_id, bot_id), active 1
add_hosted_bot(owner_id, bot_id) ==
    [hosted_bots EXCEPT ![<<owner_id, bot_id>>] = "on"]

\* lines 692-706: up to the await of the reply, or of the validation
main_receive_token(ev) ==
    /\ Free(0)
    /\ ev.awaiting
    /\ LET hr == [H0 EXCEPT !.op = "main_receive_token", !.uid = ev.uid,
                            !.format_ok = ev.format_ok] IN
       IF ~ev.format_ok
       THEN Finish(0, [hr EXCEPT !.answer = "Invalid token format."], "done")
       ELSE Finish(0, hr, "validate")
    /\ UNCHANGED <<hosted_bots, dbVars, histVars, runVars>>

\* lines 708-723: the try block raised (me = 0), or get_me gave the bot me
TokenChecked(me) ==
    /\ h[0].pc = "validate"
    /\ IF me = 0
       THEN /\ Finish(0, [h[0] EXCEPT !.answer = "Token failed"], "done")
            /\ UNCHANGED hosted_bots
       ELSE /\ hosted_bots' = add_hosted_bot(h[0].uid, me)
            /\ Finish(0, [h[0] EXCEPT !.me = me, !.answer = "Bot hosted!"], "done")
    /\ UNCHANGED <<dbVars, histVars, runVars>>

\* ---------------------------------------------------------------- hosted_owner_buttons
OwnerButtons == [uid : Users, data : {"owner:connect", "owner:groups", "owner:disconnect"}]

hosted_owner_buttons(b, ev) ==
    /\ Free(b)
    /\ \E n \in 1..MaxStarts :
        /\ Dispatching(b, n)
        /\ LET hr == [Enter("hosted_owner_buttons", b, n, ev) EXCEPT !.action = ev.data] IN
           IF ev.uid # hr.owner
           THEN Finish(b, [hr EXCEPT !.answer = "Not allowed."], "done")
           ELSE IF ev.data = "owner:disconnect"
           THEN Finish(b, hr, "dc_answer")
           ELSE Finish(b, hr, "done")      \* connect, groups: replies only
    /\ UNCHANGED <<hosted_bots, dbVars, histVars, runVars>>

\* await q.answer() returned (ok), then set_hosted_bot_active(owner_id, bot_id, 0); or raised
DisconnectAnswerDone(b, ok) ==
    /\ h[b].pc = "dc_answer"
    /\ IF ok
       THEN /\ hosted_bots' = set_hosted_bot_active(h[b].owner, b, 0)
            /\ Finish(b, h[b], "dc_reply")
       ELSE Finish(b, h[b], "raised") /\ UNCHANGED hosted_bots
    /\ UNCHANGED <<dbVars, histVars, runVars>>

\* await q.message.reply_text("Disconnected...") returned (ok), then
\* context.application.stop(): the Application of this session stops dispatching,
\* its task _run sleeps on; or raised
DisconnectReplyDone(b, ok) ==
    /\ h[b].pc = "dc_reply"
    /\ IF ok
       THEN /\ sess' = [sess EXCEPT ![b][h[b].n].running = FALSE]
            /\ Finish(b, h[b], "done")
       ELSE Finish(b, h[b], "raised") /\ UNCHANGED sess
    /\ UNCHANGED <<hosted_bots, dbVars, histVars, tasks, nstarts, main>>

\* ---------------------------------------------------------------- hosted_connect
\* is_chat_admin, on what get_chat_member gave
is_chat_admin_any(member) == member # "error"

is_chat_admin(member) == member \in {"administrator", "creator"}

\* upsert_destination: INSERT OR IGNORE, then UPDATE ... SET active=1
upsert_destination(rows, dest) ==
    IF \E i \in 1..Len(rows) : rows[i].dest = dest
    THEN [i \in 1..Len(rows) |->
            IF rows[i].dest = dest THEN [rows[i] EXCEPT !.active = TRUE] ELSE rows[i]]
    ELSE Append(rows, [dest |-> dest, active |-> TRUE])

\* lines 384-400: up to the await of is_chat_admin
hosted_connect(b, ev) ==
    /\ Handler(ev) = "hosted_connect"
    /\ Free(b)
    /\ \E n \in 1..MaxStarts :
        /\ Dispatching(b, n)
        /\ LET hr == [Enter("hosted_connect", b, n, ev) EXCEPT !.dest = ev.dest] IN
           IF ev.uid # hr.owner \/ ev.chat_type # "group"
           THEN Finish(b, hr, "done")
           ELSE Finish(b, hr, "member")
    /\ UNCHANGED <<hosted_bots, dbVars, histVars, runVars>>

\* await is_chat_admin(...) is over: get_chat_member gave member; then lines 403-410
\* (a failure of update.message.delete() is swallowed)
ConnectMemberDone(b, member) ==
    /\ h[b].pc = "member"
    /\ IF is_chat_admin(member)
       THEN /\ hosted_destinations' =
                  [hosted_destinations EXCEPT ![b] = upsert_destination(@, h[b].dest)]
            /\ Finish(b, [h[b] EXCEPT !.member = member, !.upserted = TRUE], "confirm")
       ELSE /\ Finish(b, [h[b] EXCEPT !.member = member], "done")
            /\ UNCHANGED hosted_destinations
    /\ UNCHANGED <<hosted_bots, hosted_user_intro, hosted_submissions, sub_seq,
                   hosted_admin_map, msg_seq, histVars, runVars>>

\* await context.bot.send_message("Connected to ...") returned (ok) or raised
ConnectConfirmDone(b, ok) ==
    /\ h[b].pc = "confirm"
    /\ IF ok THEN Finish(b, [h[b] EXCEPT !.confirmed = TRUE], "done")
       ELSE Finish(b, h[b], "raised")
    /\ UNCHANGED <<hosted_bots, dbVars, histVars, runVars>>

\* ---------------------------------------------------------------- the task _run
\* one step of the task of session n of bot b: the await it is at returns (ok),
\* raises, or delivers the CancelledError of a pending cancel()
TaskStep(b, n, ok) ==
    LET s == sess[b][n]
        to(ph) == sess' = [sess EXCEPT ![b][n].phase = ph, ![b][n].cancel = FALSE]
    IN
    /\ \/ /\ s.phase \in StartPhases /\ s.cancel      \* no try around lines 739-742
          /\ ~ok
          /\ to("cancelled")
       \/ /\ s.phase = "initialize" /\ ~s.cancel
          /\ to(IF ok THEN "start" ELSE "failed")
       \/ /\ s.phase = "start" /\ ~s.cancel
          /\ IF ok
             THEN sess' = [sess EXCEPT ![b][n].phase = "start_polling",
                                       ![b][n].running = TRUE]
             ELSE to("failed")
       \/ /\ s.phase = "start_polling" /\ ~s.cancel
          /\ to(IF ok THEN "polling" ELSE "failed")
       \/ /\ s.phase = "polling" /\ s.cancel          \* except CancelledError: pass; finally:
          /\ ok
          /\ to("updater_stop")
       \/ /\ s.phase \in UnwindPhases /\ s.cancel     \* cancelled again inside the finally
          /\ ~ok
          /\ to("cancelled")
       \/ /\ s.phase = "updater_stop" /\ ~s.cancel    \* except Exception: pass
          /\ to("app_stop")
       \/ /\ s.phase = "app_stop" /\ ~s.cancel
          /\ sess' = [sess EXCEPT ![b][n].phase = "shutdown", ![b][n].running = FALSE]
       \/ /\ s.phase = "shutdown" /\ ~s.cancel
          /\ to("done")
    /\ UNCHANGED <<hosted_bots, dbVars, h, histVars, tasks, nstarts, main>>

\* ---------------------------------------------------------------- HostedRunner
\* t.cancel(): a finished task is left as it is
Cancel(ss, b, n) ==
    IF ss[b][n].phase \in EndPhases THEN ss ELSE [ss EXCEPT ![b][n].cancel = TRUE]

Keys(ts) == {ts[i][1] : i \in 1..Len(ts)}
KeyList(ts) == [i \in 1..Len(ts) |-> ts[i][1]]
Entry(ts, b) == CHOOSE n \in 1..MaxStarts : <<b, n>> \in Range(ts)
RemoveKey(ts, b) == SelectSeq(ts, LAMBDA e : e[1] # b)

\* a stop_hosted that does not wait for the task it cancelled
AwaitOverNoWait(phase) == TRUE

\* a stop_hosted that waits only until the task has taken the cancellation
AwaitOverUnwinding(phase) == phase \in EndPhases \cup UnwindPhases

\* stop_hosted, line 771: await t gives control back once the task has ended
AwaitOver(phase) == phase \in EndPhases

\* stop_hosted, lines 770-775: an Exception of the awaited task is swallowed and the
\* entry popped (TRUE); its CancelledError is no Exception and leaves stop_hosted (FALSE)
stop_hosted_pops(phase) == phase # "cancelled"

\* The loop "for running_id in ...: await self.stop_hosted(running_id)" of
\* sync_from_db (keep = active_ids) and of main_async's finally (keep = {}), run up
\* to the point where control leaves it: at an await of a task not yet ended
\* ("wait", cur is the bot), by a CancelledError ("raised"), or at its end ("end").
RECURSIVE StopLoop(_, _, _, _, _)
StopLoop(run, keep, ts, ss, stopped) ==
    IF run = <<>>
    THEN [at |-> "end", run |-> <<>>, cur |-> 0, tasks |-> ts, sess |-> ss,
          stopped |-> stopped]
    ELSE LET b == Head(run) IN
         IF b \in keep \/ b \notin Keys(ts)
         THEN StopLoop(Tail(run), keep, ts, ss, stopped)
         ELSE LET n == Entry(ts, b)
                  cs == Cancel(ss, b, n)
              IN IF ~AwaitOver(cs[b][n].phase)
                 THEN [at |-> "wait", run |-> run, cur |-> b, tasks |-> ts, sess |-> cs,
                       stopped |-> stopped]
                 ELSE IF stop_hosted_pops(cs[b][n].phase)
                 THEN StopLoop(Tail(run), keep, RemoveKey(ts, b), cs, stopped \cup {b})
                 ELSE [at |-> "raised", run |-> run, cur |-> b, tasks |-> ts, sess |-> cs,
                       stopped |-> stopped]

\* stop_hosted once the task it awaits has ended: pop and go on with the loop
AfterWait(run, keep, ts, ss, stopped) ==
    LET b == Head(run)
        ph == ss[b][Entry(ts, b)].phase
    IN IF stop_hosted_pops(ph)
       THEN StopLoop(Tail(run), keep, RemoveKey(ts, b), ss, stopped \cup {b})
       ELSE [at |-> "raised", run |-> run, cur |-> b, tasks |-> ts, sess |-> ss,
             stopped |-> stopped]

\* asyncio.run on the way out: every task still pending is cancelled
ProcessExit(ss) ==
    [b \in Bots |-> [n \in 1..MaxStarts |->
        IF ss[b][n].phase \in EndPhases \cup {"none"}
        THEN ss[b][n] ELSE [ss[b][n] EXCEPT !.cancel = TRUE]]]

\* start_hosted for the bots of order, one after the other: no await, each task is
\* created in "initialize" and registered, bound to the owner of its row
RECURSIVE StartAll(_, _, _, _, _)
StartAll(order, owner, ts, ss, ns) ==
    IF order = <<>>
    THEN [tasks |-> ts, sess |-> ss, nstarts |-> ns]
    ELSE LET b == Head(order) IN
         IF b \in Keys(ts)
         THEN StartAll(Tail(order), owner, ts, ss, ns)
         ELSE StartAll(Tail(order), owner,
                       Append(ts, <<b, ns[b] + 1>>),
                       [ss EXCEPT ![b][ns[b] + 1] =
                            [phase |-> "initialize", owner_id |-> owner[b],
                             running |-> FALSE, cancel |-> FALSE]],
                       [ns EXCEPT ![b] = @ + 1])

Orders(S) == {q \in UNION {[1..k -> S] : k \in {Cardinality(S)}} :
                 \A i, j \in DOMAIN q : i # j => q[i] # q[j]}

\* sync_from_db, lines 787-790, and its return.  The SELECT of
\* list_all_active_bots has no ORDER BY: the rows come in any order, so the bots
\* start in any order and a bot with several active rows is bound to any of their owners.
StartPhase(m, r) ==
    LET missing == m.ids \ Keys(r.tasks) IN
    \E order \in Orders(missing) :
    \E owner \in [missing -> Users] :
        /\ \A b \in missing : <<owner[b], b>> \in m.active
        /\ LET st == StartAll(order, owner, r.tasks, r.sess, nstarts) IN
           /\ tasks' = st.tasks
           /\ sess' = st.sess
           /\ nstarts' = st.nstarts
           /\ main' = [m EXCEPT !.pc = "returned", !.ended = "ok", !.run = <<>>, !.cur = 0,
                                !.stopped = r.stopped, !.started = missing]

\* where main_async is once the loop of stop_hosted calls (result r) gives control back
Leave(m, r) ==
    CASE r.at = "wait" ->
            /\ main' = [m EXCEPT !.run = r.run, !.cur = r.cur, !.stopped = r.stopped]
            /\ tasks' = r.tasks /\ sess' = r.sess /\ UNCHANGED nstarts
      [] r.at = "end" /\ m.pc = "stop_wait" -> StartPhase(m, r)
      [] r.at = "raised" /\ m.pc = "stop_wait" ->       \* sync_from_db raises
            /\ main' = [m EXCEPT !.pc = "raised", !.ended = "raised", !.run = <<>>,
                                 !.cur = r.cur, !.stopped = r.stopped]
            /\ tasks' = r.tasks /\ sess' = r.sess /\ UNCHANGED nstarts
      [] OTHER ->        \* the finally's loop is over, or raised: main_async ends
            /\ main' = [M0 EXCEPT !.pc = "exited"]
            /\ tasks' = r.tasks /\ sess' = ProcessExit(r.sess) /\ UNCHANGED nstarts

\* sync_from_db is called (line 809 at boot, line 814 in the loop) and runs up to
\* its first await that waits, or to its end
SyncBegin ==
    /\ main.pc \in {"boot", "sleep"}
    /\ \A b \in Bots : nstarts[b] < MaxStarts
    /\ LET rows == {k \in DOMAIN hosted_bots : hosted_bots[k] = "on"}
           ids == {k[2] : k \in rows}
           m == [main EXCEPT !.pc = "stop_wait", !.in_loop = (main.pc = "sleep"),
                             !.active = rows, !.ids = ids, !.ended = "none",
                             !.started = {}, !.stopped = {},
                             !.was_failed = {b \in ids \cap TaskKeys :
                                                sess[b][TaskOf(b)].phase = "failed"},
                             !.same = (TaskKeys = ids)]
       IN Leave(m, StopLoop(KeyList(tasks), ids, tasks, sess, {}))
    /\ UNCHANGED <<hosted_bots, dbVars, h, histVars>>

\* the task awaited by stop_hosted has ended: main_async goes on
StopWaitOver ==
    /\ main.pc \in {"stop_wait", "finally_wait"}
    /\ main.cur # 0
    /\ AwaitOver(sess[main.cur][TaskOf(main.cur)].phase)
    /\ Leave(main, AfterWait(main.run, IF main.pc = "stop_wait" THEN main.ids ELSE {},
                             tasks, sess, main.stopped))
    /\ UNCHANGED <<hosted_bots, dbVars, h, histVars>>

\* sync_from_db has returned: main_async sleeps (line 813).  Or it has raised the
\* CancelledError: line 815 catches it when the call was inside the try and the
\* finally stops every task, else main_async ends with it.  What the pass did
\* stays readable in main until this step, and nothing else runs in between.
PassOver ==
    /\ main.pc \in {"returned", "raised"}
    /\ IF main.pc = "returned"
       THEN /\ main' = M0
            /\ UNCHANGED <<tasks, sess, nstarts>>
       ELSE IF main.in_loop
       THEN Leave([M0 EXCEPT !.pc = "finally_wait"],
                  StopLoop(KeyList(tasks), {}, tasks, sess, {}))
       ELSE /\ main' = [M0 EXCEPT !.pc = "exited"]
            /\ sess' = ProcessExit(sess)
            /\ UNCHANGED <<tasks, nstarts>>
    /\ UNCHANGED <<hosted_bots, dbVars, h, histVars, events, vault>>

\* the process is told to stop: main_async is cancelled in asyncio.sleep(5) and
\* its finally stops every task
MainCancelled ==
    /\ main.pc = "sleep"
    /\ Leave([M0 EXCEPT !.pc = "finally_wait"],
             StopLoop(KeyList(tasks), {}, tasks, sess, {}))
    /\ UNCHANGED <<hosted_bots, dbVars, h, histVars>>

\* ---------------------------------------------------------------- SpecMod
\* Two registered bots whose sessions are polling: bot b was registered by user b.
\* Bot 1 has no destination yet or three connected ones; the tables are empty, or
\* user 2 has sent bot 1 a text (intro sent, submission 1 pending, notification 1 mapped).
ThreeDests ==
    <<[dest |-> <<100, 0>>, active |-> TRUE],
      [dest |-> <<100, 7>>, active |-> TRUE],
      [dest |-> <<200, 0>>, active |-> TRUE]>>

InitMod ==
    /\ hosted_bots = [k \in Users \X Bots |-> IF k[1] = k[2] THEN "on" ELSE "none"]
    /\ \E ds \in {<<>>, ThreeDests} :
          hosted_destinations = [b \in Bots |-> IF b = 1 THEN ds ELSE <<>>]
    /\ \/ /\ hosted_user_intro = {}
          /\ hosted_submissions = <<>>
          /\ sub_seq = 1
          /\ hosted_admin_map = <<>>
          /\ msg_seq = [b \in Bots |-> 1]
          /\ intro_sends = [k \in Bots \X Users |-> 0]
       \/ /\ hosted_user_intro = {<<1, 2>>}
          /\ hosted_submissions = create_submission(<<>>, 1, 1, 1, 2, "text")
          /\ sub_seq = 2
          /\ hosted_admin_map = map_admin_msg(<<>>, 1, 1, 1, 1)
          /\ msg_seq = [b \in Bots |-> IF b = 1 THEN 2 ELSE 1]
          /\ intro_sends = [k \in Bots \X Users |-> IF k = <<1, 2>> THEN 1 ELSE 0]
    /\ h = [b \in Apps |-> H0]
    /\ posts = <<>>
    /\ events = 0
    /\ tasks = <<<<1, 1>>, <<2, 1>>>>
    /\ sess = [b \in Bots |-> [n \in 1..MaxStarts |->
                  IF n = 1
                  THEN [phase |-> "polling", owner_id |-> b, running |-> TRUE, cancel |-> FALSE]
                  ELSE NoSess]]
    /\ nstarts = [b \in Bots |-> 1]
    /\ main = M0
    /\ vault = NoVault

\* the handler has returned (or raised into the dispatcher, which logs it): the
\* Application takes the next update.  What the handler did stays readable in h
\* until this step, and nothing else runs in between.
Return(b) ==
    /\ h[b].pc \in {"done", "raised"}
    /\ h' = [h EXCEPT ![b] = H0]
    /\ UNCHANGED <<hosted_bots, dbVars, histVars, events, runVars, vault>>

Quiet ==
    /\ \A b \in Apps : h[b].pc \notin {"done", "raised"}
    /\ main.pc \notin {"returned", "raised"}

\* an update arrives and its handler runs up to its first await
Arrives == Quiet /\ events < MaxEvents /\ events' = events + 1 /\ UNCHANGED vault

\* an awaited call completes, or main_async or a task runs on
Steps == Quiet /\ UNCHANGED <<events, vault>>

NextMod ==
    \/ \E b \in Apps : Return(b)
    \/ Arrives /\ \E b \in Bots, ev \in Messages : hosted_start(b, ev)
    \/ Arrives /\ \E b \in Bots, ev \in Messages : hosted_user_dm(b, ev)
    \/ Arrives /\ \E b \in Bots, ev \in Messages : hosted_owner_reply_relay(b, ev)
    \/ Arrives /\ \E b \in Bots, ev \in Callbacks : hosted_approve_reject(b, ev)
    \/ Arrives /\ \E u \in Users, b \in Bots : MainDel(u, b)
    \/ Arrives /\ \E b \in Bots, ev \in Connects : hosted_connect(b, ev)
    \/ Steps /\ \E b \in Bots, member \in Members : ConnectMemberDone(b, member)
    \/ Steps /\ \E b \in Bots, ok \in BOOLEAN : ConnectConfirmDone(b, ok)
    \/ Steps /\ \E b \in Bots, ok \in BOOLEAN : StartIntroDone(b, ok)
    \/ Steps /\ \E b \in Bots, ok \in BOOLEAN : DmIntroDone(b, ok)
    \/ Steps /\ \E b \in Bots, ok \in BOOLEAN : DmNotifyDone(b, ok)
    \/ Steps /\ \E b \in Bots, ok \in BOOLEAN : ApproveAnswerDone(b, ok)
    \/ Steps /\ \E b \in Bots : ApproveEditDone(b)
    \/ Steps /\ \E b \in Bots, ok \in BOOLEAN : ApproveSendDone(b, ok)
    \/ Steps /\ \E b \in Bots, ok \in BOOLEAN : ApproveReportDone(b, ok)

SpecMod == InitMod /\ [][NextMod]_vars

\* ---------------------------------------------------------------- SpecRun
\* The process starts (line 794 on) on a hosted_bots table left by earlier
\* registrations: user 1 registered bot 1, user 2 registered both bots, each row
\* enabled or disabled.  The other tables stay empty here.
InitRun ==
    /\ hosted_bots \in [Users \X Bots -> {"none", "on", "off"}]
    /\ \A k \in Users \X Bots : hosted_bots[k] = "none" <=> k = <<1, 2>>
    /\ hosted_destinations = [b \in Bots |-> <<>>]
    /\ hosted_user_intro = {}
    /\ hosted_submissions = <<>>
    /\ sub_seq = 1
    /\ hosted_admin_map = <<>>
    /\ msg_seq = [b \in Bots |-> 1]
    /\ intro_sends = [k \in Bots \X Users |-> 0]
    /\ h = [b \in Apps |-> H0]
    /\ posts = <<>>
    /\ events = 0
    /\ tasks = <<>>
    /\ sess = [b \in Bots |-> [n \in 1..MaxStarts |-> NoSess]]
    /\ nstarts = [b \in Bots |-> 0]
    /\ main = [M0 EXCEPT !.pc = "boot", !.in_loop = FALSE]
    /\ vault = NoVault

Up == main.pc # "exited"

NextRun ==
    \/ \E b \in Apps : Return(b)
    \/ PassOver
    \/ Arrives /\ Up /\ \E u \in Users, b \in Bots : MainStop(u, b)
    \/ Arrives /\ Up /\ \E u \in Users, b \in Bots : MainStart(u, b)
    \/ Arrives /\ Up /\ \E u \in Users, b \in Bots : MainDel(u, b)
    \/ Arrives /\ \E b \in Bots, ev \in OwnerButtons :
                      ev.data = "owner:disconnect" /\ hosted_owner_buttons(b, ev)
    \/ Steps /\ SyncBegin
    \/ Steps /\ StopWaitOver
    \/ Steps /\ MainCancelled
    \/ Steps /\ \E b \in Bots, n \in 1..MaxStarts, ok \in BOOLEAN : TaskStep(b, n, ok)
    \/ Steps /\ \E b \in Bots, ok \in BOOLEAN : DisconnectAnswerDone(b, ok)
    \/ Steps /\ \E b \in Bots, ok \in BOOLEAN : DisconnectReplyDone(b, ok)

SpecRun == InitRun /\ [][NextRun]_vars

\* ---------------------------------------------------------------- SpecReg
\* The main bot's handlers over hosted_bots, on any table that registrations,
\* stops and deletes can have left; the sessions are left aside here.
InitReg ==
    /\ hosted_bots \in [Users \X Bots -> {"none", "on", "off"}]
    /\ hosted_destinations = [b \in Bots |-> <<>>]
    /\ hosted_user_intro = {}
    /\ hosted_submissions = <<>>
    /\ sub_seq = 1
    /\ hosted_admin_map = <<>>
    /\ msg_seq = [b \in Bots |-> 1]
    /\ intro_sends = [k \in Bots \X Users |-> 0]
    /\ h = [b \in Apps |-> H0]
    /\ posts = <<>>
    /\ events = 0
    /\ tasks = <<>>
    /\ sess = [b \in Bots |-> [n \in 1..MaxStarts |-> NoSess]]
    /\ nstarts = [b \in Bots |-> 0]
    /\ main = M0
    /\ vault = NoVault

NextReg ==
    \/ Return(0)
    \/ Steps /\ Free(0) /\ \E u \in Users, b \in Bots : MainStop(u, b)
    \/ Steps /\ Free(0) /\ \E u \in Users, b \in Bots : MainStart(u, b)
    \/ Steps /\ Free(0) /\ \E u \in Users, b \in Bots : MainDel(u, b)
    \/ Steps /\ \E ev \in Tokens : main_receive_token(ev)
    \/ Steps /\ \E me \in Bots \cup {0} : TokenChecked(me)

SpecReg == InitReg /\ [][NextReg]_vars

\* ---------------------------------------------------------------- SpecVault
\* A process with some SECRET_KEY stores some token and reads it back.
InitVault ==
    /\ hosted_bots = [k \in Users \X Bots |-> "none"]
    /\ hosted_destinations = [b \in Bots |-> <<>>]
    /\ hosted_user_intro = {}
    /\ hosted_submissions = <<>>
    /\ sub_seq = 1
    /\ hosted_admin_map = <<>>
    /\ msg_seq = [b \in Bots |-> 1]
    /\ intro_sends = [k \in Bots \X Users |-> 0]
    /\ h = [b \in Apps |-> H0]
    /\ posts = <<>>
    /\ events = 0
    /\ tasks = <<>>
    /\ sess = [b \in Bots |-> [n \in 1..MaxStarts |-> NoSess]]
    /\ nstarts = [b \in Bots |-> 0]
    /\ main = M0
    /\ \E key \in SeqsUpTo(KeyPoints, MaxKey), token \in SeqsUpTo(CodePoints, MaxToken) :
          vault = [NoVault EXCEPT !.pc = "token", !.key = key, !.token = token]

NextVault ==
    \/ Protect
    \/ Unprotect

SpecVault == InitVault /\ [][NextVault]_vars

\* ---------------------------------------------------------------- C1
\* C1 (idempotent approval): over any sequence of approve invocations by the owner,
\* send_to_dest is called at most once for each submission and destination; an
\* approve of a submission of this bot that is already approved is answered
\* "Already approved.", writes no status and calls send_to_dest for no destination.
C1_IdempotentApproval ==
    /\ \A k \in DOMAIN posts : posts[k] <= 1
    /\ \A b \in Bots :
          (h[b].op = "hosted_approve_reject" /\ h[b].action = "approve"
              /\ h[b].sub.bot_id = b /\ h[b].sub.status = "approved")
          => (h[b].pc = "done" /\ h[b].answer = "Already approved."
              /\ h[b].wrote = "none" /\ h[b].sent = <<>>)

\* a second approve of a submission that the first one delivered
C1_SecondApprove ==
    \E b \in Bots :
        /\ h[b].op = "hosted_approve_reject" /\ h[b].action = "approve"
        /\ h[b].sub.bot_id = b /\ h[b].sub.status = "approved"
        /\ \A d \in Dests : Posts(h[b].sid, d) = 1

\* ---------------------------------------------------------------- C2
\* C2 (terminal states exclude each other): the status of a submission changes only
\* from pending, and only to approved or rejected; an approve or reject of a
\* submission of this bot that is no longer pending is answered "Already ...",
\* writes nothing, and the status is still the one it found.
C2_StatusChangesOnce ==
    /\ [][\A i \in DOMAIN hosted_submissions :
            (i \in DOMAIN hosted_submissions'
                /\ hosted_submissions'[i].status # hosted_submissions[i].status)
            => (hosted_submissions[i].status = "pending"
                /\ hosted_submissions'[i].status \in {"approved", "rejected"})]_vars
    /\ [](\A b \in Bots :
            (h[b].op = "hosted_approve_reject" /\ h[b].sub.bot_id = b
                /\ h[b].sub.status \in {"approved", "rejected"})
            => (h[b].pc = "done" /\ h[b].wrote = "none"
                /\ h[b].answer = (IF h[b].sub.status = "approved"
                                  THEN "Already approved." ELSE "Already rejected.")
                /\ get_submission(h[b].sid).status = h[b].sub.status))

\* an approve of a submission that was rejected before
C2_ApproveAfterReject ==
    \E b \in Bots :
        /\ h[b].op = "hosted_approve_reject" /\ h[b].action = "approve"
        /\ h[b].sub.bot_id = b /\ h[b].sub.status = "rejected"
        /\ h[b].answer = "Already rejected."

\* ---------------------------------------------------------------- C3
\* C3 (reconciliation convergence): when a sync_from_db pass is over, the keys of
\* HostedRunner.tasks are the active ids the pass read; and a pass that began with
\* the keys already equal to them started and stopped nothing.
C3_ReconcileConverges ==
    main.pc \in {"returned", "raised"}
    => /\ TaskKeys = main.ids
       /\ main.same => (main.started = {} /\ main.stopped = {})

\* ---------------------------------------------------------------- C4
\* C4 (one live session per worker): at any time at most one task _run of a bot
\* is between its creation and its end, whatever sync_from_db, stop_hosted, the
\* main bot's buttons and the session's own disconnect do.
C4_OneLiveSession ==
    \A b \in Bots : Cardinality({n \in 1..MaxStarts : Alive(b, n)}) <= 1

\* a bot was stopped and started again: its first task has ended, its second is polling
C4_Restarted ==
    \E b \in Bots : sess[b][1].phase \in EndPhases /\ sess[b][2].phase = "polling"

\* ---------------------------------------------------------------- C5
\* C5 (start-failure retry): a bot that is active when a pass begins and whose
\* registered task had failed in initialize/start/start_polling is started again
\* by that pass.
C5_FailedStartRetried ==
    main.pc = "returned" => main.was_failed \subseteq main.started

\* ---------------------------------------------------------------- C6
\* C6 (fan-out isolation): when the fan-out of an approved submission is over and
\* send_to_dest failed for some destinations, send_to_dest was called for every
\* destination of the list, and exactly one error was reported for each failed one.
C6_FanOutIsolation ==
    \A b \in Bots :
        (h[b].op = "hosted_approve_reject" /\ h[b].pc \in {"done", "raised"}
            /\ h[b].failed # {})
        => /\ Range(h[b].sent) = Range(h[b].dests)
           /\ Range(h[b].reported) = h[b].failed
           /\ Len(h[b].reported) = Cardinality(h[b].failed)

\* ---------------------------------------------------------------- C7
\* C7 (intake): when the handler of a private message with submittable content
\* from a user who is not the owner has returned, it has created a submission that
\* is pending, sent the owner the notification, and mapped the notification's
\* message id to the submission; whether the message is a reply or not.
C7_IntakeEveryMessage ==
    \A b \in Bots :
        (h[b].op \in {"hosted_user_dm", "hosted_owner_reply_relay"} /\ h[b].pc = "done"
            /\ h[b].uid # h[b].owner /\ h[b].content \in Kinds)
        => /\ h[b].created # 0
           /\ get_submission(h[b].created).status = "pending"
           /\ h[b].notified
           /\ submission_from_admin_reply(b, h[b].owner, h[b].mapped) = h[b].created

\* ---------------------------------------------------------------- C8
\* C8 (intro once): while a bot has a row in hosted_bots, INTRO_TEXT is sent to a
\* user of it at most once, over /start and direct messages in any order.
C8_IntroOnce ==
    \A k \in Bots \X Users : intro_sends[k] <= 1

\* ---------------------------------------------------------------- C9
\* C9 (reconcile tolerates partial failure): when a pass is over, every bot other
\* than the one whose stop or start failed is registered if and only if it was
\* active when the pass began.
C9_PassToleratesFailure ==
    main.pc \in {"returned", "raised"}
    => \A b \in Bots \ {main.cur} : (b \in TaskKeys <=> b \in main.ids)

\* ---------------------------------------------------------------- C10
\* C10 (approve/reject refused): an approve or reject pressed by someone who is not
\* the session's owner, or naming a submission that does not exist or that belongs
\* to another bot, is answered "Owner only." or "Not found." and ends there: no
\* status is written and send_to_dest is not called.
C10_Refused ==
    [][\A b \in Bots :
          (/\ h[b].pc = "idle" /\ h'[b].op = "hosted_approve_reject"
           /\ \/ h'[b].uid # h'[b].owner
              \/ get_submission(h'[b].sid) = NoSub
              \/ get_submission(h'[b].sid).bot_id # b)
          => (/\ h'[b].pc = "done"
              /\ h'[b].answer \in {"Owner only.", "Not found."}
              /\ h'[b].wrote = "none" /\ h'[b].sent = <<>>
              /\ UNCHANGED <<hosted_submissions, posts>>)]_vars

\* the owner of a bot presses approve or reject on a submission of another bot
C10_OtherBotsSubmission ==
    \E b \in Bots :
        /\ h[b].op = "hosted_approve_reject" /\ h[b].uid = h[b].owner
        /\ get_submission(h[b].sid) # NoSub /\ get_submission(h[b].sid).bot_id # b
        /\ h[b].answer = "Not found."

\* ---------------------------------------------------------------- C11
\* C11 (approve with no destination): when an approve that wrote 'approved' is
\* over and the bot has no active destination, the handler has sent the owner the
\* "No destination connected" reply, has called send_to_dest for no destination,
\* and the status of the submission, if the row still exists, is approved.
C11_NoDestinationReported ==
    \A b \in Bots :
        (h[b].op = "hosted_approve_reject" /\ h[b].pc \in {"done", "raised"}
            /\ h[b].wrote = "approved" /\ list_destinations(b) = <<>>
            /\ h[b].dests = <<>>)
        => /\ h[b].nodest
           /\ h[b].sent = <<>>
           /\ get_submission(h[b].sid).status \in {"approved", "none"}

\* ---------------------------------------------------------------- C12
\* C12 (connect authorization): a step of hosted_connect changes hosted_destinations
\* or posts the confirmation only if the sender is the session's owner and
\* get_chat_member gave 'administrator' or 'creator'; and no row of
\* hosted_destinations appears or becomes active by any other step.
C12_ConnectAuthorized ==
    [][\A b \in Bots :
          LET old == hosted_destinations[b]
              new == hosted_destinations'[b]
              allowed == /\ h'[b].op = "hosted_connect"
                         /\ h'[b].uid = h'[b].owner
                         /\ h'[b].member \in {"administrator", "creator"}
          IN /\ (h'[b].op = "hosted_connect" /\ h'[b] # h[b] /\ ~allowed)
                => (new = old /\ ~h'[b].confirmed /\ ~h'[b].upserted)
             /\ (\E i \in 1..Len(new) :
                    new[i].active /\ [dest |-> new[i].dest, active |-> TRUE] \notin Range(old))
                => (allowed /\ h[b].pc = "member")]_vars

\* the owner, an administrator of the group, has connected it and the
\* confirmation was posted
C12_Connected ==
    \E b \in Bots :
        /\ h[b].op = "hosted_connect" /\ h[b].confirmed
        /\ h[b].dest \in Range(list_destinations(b))
        /\ h[b].member = "administrator"

\* ---------------------------------------------------------------- C13
\* C13 (registering a bot): a step of main_receive_token on a text that does not
\* match TOKEN_RE, or whose validation raised, leaves hosted_bots unchanged and
\* ends with an error reply; when get_me gave a bot, the row (sender, bot) is
\* there and active afterwards, and no other row has changed.
C13_RegisterWorker ==
    [][(h'[0].op = "main_receive_token" /\ h'[0] # h[0] /\ h[0].pc \in {"idle", "validate"})
        => IF h'[0].me # 0
           THEN /\ hosted_bots'[<<h'[0].uid, h'[0].me>>] = "on"
                /\ \A k \in DOMAIN hosted_bots :
                      k # <<h'[0].uid, h'[0].me>> => hosted_bots'[k] = hosted_bots[k]
                /\ h'[0].answer = "Bot hosted!"
           ELSE /\ hosted_bots' = hosted_bots
                /\ h'[0].pc = "done"
                   => h'[0].answer = (IF h'[0].format_ok THEN "Token failed"
                                      ELSE "Invalid token format.")]_vars

\* a user has registered a bot that another user has registered too
C13_SecondOwner ==
    /\ h[0].op = "main_receive_token" /\ h[0].me # 0
    /\ hosted_bots[<<h[0].uid, h[0].me>>] = "on"
    /\ \E u \in Users \ {h[0].uid} : hosted_bots[<<u, h[0].me>>] # "none"

\* ---------------------------------------------------------------- C14
\* C14 (credential round trip): for every token and every SECRET_KEY, the empty
\* one included, unprotect_token gives back the token that protect_token stored;
\* with the empty key the stored text is the base64 of the token's bytes.
C14_RoundTrip ==
    /\ vault.pc = "read" => vault.dec = vault.token
    /\ (vault.pc \in {"stored", "read"} /\ vault.key = <<>>)
       => vault.enc = urlsafe_b64encode(utf8_encode(vault.token))

\* a token of three characters, one of them of two bytes, read back under a key
\* of two characters
C14_ReadBack ==
    /\ vault.pc = "read" /\ Len(vault.token) = 3 /\ Len(vault.key) = 2
    /\ 233 \in Range(vault.token) /\ vault.dec = vault.token
    /\ vault.enc # urlsafe_b64encode(utf8_encode(vault.token))

\* ---------------------------------------------------------------- C15
\* C15 (self-disconnect): the disconnect pressed by the owner inside a session
\* sets the row of (owner, bot) inactive; and when a sync_from_db pass is over, no
\* bot that had no active row when the pass began still has a session that
\* stopped its own Application and sleeps on in its keep-alive loop.
C15_SelfDisconnect ==
    /\ [][\A b \in Bots :
            (h[b].pc = "dc_answer" /\ h'[b].pc = "dc_reply")
            => hosted_bots'[<<h[b].owner, b>>] # "on"]_vars
    /\ [](main.pc \in {"returned", "raised"}
          => \A b \in Bots \ main.ids : \A n \in 1..MaxStarts :
                ~(sess[b][n].phase = "polling" /\ ~sess[b][n].running))

\* ---------------------------------------------------------------- C16
\* C16 (reply relay addressing): hosted_owner_reply_relay sends the reply on only
\* when the sender is the session's owner and hosted_admin_map has the row
\* (bot, owner, replied message id), whose submission is of this bot, and then
\* to that submission's user_id; and the handler leaves hosted_submissions as it is.
C16_RelayAddressing ==
    /\ [](\A b \in Bots :
            h[b].op = "hosted_owner_reply_relay"
            => LET key == <<b, h[b].owner, h[b].reply_to>>
                   mapped == key \in DOMAIN hosted_admin_map
               IN /\ h[b].relayed_to # 0
                     => /\ h[b].uid = h[b].owner /\ mapped
                        /\ get_submission(hosted_admin_map[key]).bot_id = b
                        /\ h[b].relayed_to = get_submission(hosted_admin_map[key]).user_id
                  /\ (h[b].uid # h[b].owner \/ ~mapped) => h[b].relayed_to = 0)
    /\ [][\A b \in Bots :
            (h[b].pc = "idle" /\ h'[b].op = "hosted_owner_reply_relay")
            => UNCHANGED <<hosted_submissions, sub_seq>>]_vars

\* the owner of bot 1 replies to the notification of submission 1: the reply goes
\* to user 2, who sent the submission
C16_Relayed ==
    /\ h[1].op = "hosted_owner_reply_relay" /\ h[1].relayed_to = 2
    /\ h[1].uid = 1 /\ get_submission(h[1].sid).user_id = 2

\* ---------------------------------------------------------------- C17
\* C17 (delete cascades): the step that removes the last hosted_bots row of a bot
\* leaves no hosted_destinations, hosted_user_intro, hosted_submissions or
\* hosted_admin_map row of that bot, and when a pass of sync_from_db is over a
\* bot that has no row (and was not active when the pass began) is not in
\* HostedRunner.tasks and has no session left.
C17_DeleteCascades ==
    /\ [][\A b \in Bots :
            (HasRow(b) /\ ~HasRow(b)')
            => /\ hosted_destinations'[b] = <<>>
               /\ \A r \in hosted_user_intro' : r[1] # b
               /\ \A i \in DOMAIN hosted_submissions' : hosted_submissions'[i].bot_id # b
               /\ \A k \in DOMAIN hosted_admin_map' : k[1] # b]_vars
    /\ [](main.pc \in {"returned", "raised"}
          => \A b \in Bots \ main.ids :
                ~HasRow(b) => /\ b \notin TaskKeys
                              /\ \A n \in 1..MaxStarts : ~Alive(b, n))

\* ---------------------------------------------------------------- C18
\* C18 (approval implies fan-out): when a hosted_approve_reject that wrote the
\* status 'approved' is over, returned or raised, a send has been attempted to
\* every active destination of the bot.  (The bot's Application runs no
\* hosted_connect meanwhile, so a destination active now was active at the write.)
C18_ApprovalFansOut ==
    \A b \in Bots :
        (h[b].op = "hosted_approve_reject" /\ h[b].pc \in {"done", "raised"}
            /\ h[b].wrote = "approved")
        => Range(list_destinations(b)) \subseteq Range(h[b].sent)

\* ---------------------------------------------------------------- C19
\* C19 (registry accuracy): every entry of HostedRunner.tasks, except the one
\* stop_hosted is waiting for, is a session that is starting, or polling with its
\* Application dispatching.
C19_RegistryAccurate ==
    \A i \in 1..Len(tasks) :
        LET b == tasks[i][1]
            n == tasks[i][2]
        IN \/ main.pc = "stop_wait" /\ main.cur = b
           \/ sess[b][n].phase \in StartPhases
           \/ Dispatching(b, n)

C22_AdminMapInvariant ==
    /\ [][\A k \in DOMAIN hosted_admin_map \cap DOMAIN hosted_admin_map' :
            hosted_admin_map'[k] = hosted_admin_map[k]]_vars
    /\ [](\A k \in DOMAIN hosted_admin_map :
            /\ hosted_admin_map[k] \in DOMAIN hosted_submissions
            /\ hosted_submissions[hosted_admin_map[k]].bot_id = k[1])

\* ---------------------------------------------------------------- C23
\* C23 (tenant isolation of delete): a step of the main bot's delete button for a
\* bot that leaves hosted_bots as it is (the presser has no row of that bot)
\* leaves the bot's hosted_destinations, hosted_user_intro, hosted_submissions
\* and hosted_admin_map rows as they are.
C23_DeleteIsolated ==
    [][(\E u \in Users, b \in Bots : MainDel(u, b) /\ hosted_bots[<<u, b>>] = "none")
        => UNCHANGED <<hosted_bots, hosted_destinations, hosted_user_intro,
                       hosted_submissions, hosted_admin_map>>]_vars

\* ---------------------------------------------------------------- C24
\* C24 (no orphan pending submission): every pending row of hosted_submissions,
\* except the one whose hosted_user_dm is still waiting for the notification to
\* be sent, has a row of hosted_admin_map that points to it.
C24_NoOrphanPending ==
    \A sid \in DOMAIN hosted_submissions :
        (/\ hosted_submissions[sid].status = "pending"
         /\ ~\E b \in Bots : h[b].pc = "notify" /\ h[b].created = sid)
        => \E k \in DOMAIN hosted_admin_map : hosted_admin_map[k] = sid

\* ---------------------------------------------------------------- C25
\* C25 (owner binding): when a pass of sync_from_db has returned, the owner_id
\* that the task of every registered bot was built with is the owner of a row of
\* that bot among the active rows the pass read.
C25_OwnerBinding ==
    main.pc = "returned"
    => \A i \in 1..Len(tasks) :
          <<sess[tasks[i][1]][tasks[i][2]].owner_id, tasks[i][1]>> \in main.active

\* ---------------------------------------------------------------- C26
\* C26 (stopping a starting session is contained): a pass of sync_from_db never
\* ends by raising; when it has returned, no bot it had to stop (registered, not
\* active) is left in HostedRunner.tasks; and main_async leaves its loop only
\* when it is itself told to stop, never out of a pass.
C26_StopContained ==
    /\ [](main.pc # "raised")
    /\ [](main.pc = "returned" => TaskKeys \subseteq main.ids)
    /\ [][main.pc \in {"stop_wait", "returned", "raised"}
            => main'.pc \notin {"finally_wait", "exited"}]_vars

====
